---- MODULE Spec2Model ----
(***************************************************************************)
(* Model of the lingua-cli driver (src/src/main.rs): argument handling,    *)
(* language selection, detector construction, the four input modes, the    *)
(* minimum-length gate and the three output formatters.                    *)
(*                                                                         *)
(* The language detector itself is an external library.  Its results are   *)
(* modelled as nondeterministic choices over every well-formed answer      *)
(* (a ranked distribution over the detector's languages, or a sequence of  *)
(* non-overlapping segments); this covers every accuracy setting           *)
(* (quick / preload / minimum relative distance, main.rs 106-114), which   *)
(* only influence the values the detector returns.                         *)
(*                                                                         *)
(* Text is a sequence of one-byte characters, a score is an integer on a   *)
(* scale 0..MaxScore, an Option is <<>> (None) or <<x>> (Some(x)).         *)
(***************************************************************************)
EXTENDS Integers, Sequences, FiniteSets

VARIABLES
    args,       \* the parsed Args (main.rs 6-79, 82)
    pc,         \* position in main: start, build, dispatch, a mode, exit
    mode,       \* the branch of the if / else-if chain that was entered
    detector,   \* the detector, once built (main.rs 115)
    stdinRead,  \* standard input has been read from
    stdin,      \* what has been consumed from standard input, line by line
    lines,      \* the lines collected by the parallel branch (main.rs 133)
    results,    \* the batch results of the parallel branch (main.rs 148)
    stdout,     \* the records printed, one per print! / println!
    stderr,     \* the messages written to standard error
    calls,      \* the detector calls made: function, input, answer
    exitCode    \* None while running, then Some(code)

vars == <<args, pc, mode, detector, stdinRead, stdin, lines, results,
          stdout, stderr, calls, exitCode>>

(* ------------------------------ bounds -------------------------------- *)
MaxScore == 1
MaxArgs == 2
MaxLines == 2
MaxMinLength == 1
MaxSegments == 2

(* ------------------------------ options ------------------------------- *)
None == <<>>
Some(x) == <<x>>
is_some(o) == o # <<>>
is_none(o) == o = <<>>
unwrap(o) == o[1]

(* ------------------------------ alphabet ------------------------------ *)
Space == " "
Newline == "\n"
Letters == {"a"}
Chars == {"a", "1"}
is_alphabetic(c) == c \in Letters

Words == {<<c>> : c \in Chars}

RECURSIVE SeqsUpTo(_, _)
SeqsUpTo(S, n) ==
    IF n = 0 THEN {<<>>}
    ELSE LET shorter == SeqsUpTo(S, n - 1)
         IN  shorter \cup {Append(s, x) : s \in {q \in shorter : Len(q) = n - 1}, x \in S}

(* --------------------------- languages -------------------------------- *)
AllLanguages == <<"en", "de">>
LanguageName(code) == IF code = "en" THEN "English" ELSE "German"
SupportedCodes == {AllLanguages[k] : k \in 1..Len(AllLanguages)}
LanguageArgs == {<<>>, <<"de", "en">>, <<"de", "xx">>}
\* --delimiter, default "\t" (main.rs 74)
Delimiters == {"\t"}

\* The parsed command line.  A minimum length of 0 rejects nothing, exactly
\* like no minimum length, and is left to the None case.
Args ==
    [languages : LanguageArgs,
     per_line : BOOLEAN,
     parallel : BOOLEAN,
     list : BOOLEAN,
     all : BOOLEAN,
     multi : BOOLEAN,
     confidence : {None} \cup {Some(s) : s \in 0..MaxScore},
     minlength : {None} \cup {Some(m) : m \in 1..MaxMinLength},
     delimiter : Delimiters,
     text : SeqsUpTo(Words, MaxArgs)]

(* ----------------------------- helpers -------------------------------- *)
RECURSIVE join(_, _)
join(words, sep) ==
    IF words = <<>> THEN <<>>
    ELSE IF Len(words) = 1 THEN words[1]
    ELSE words[1] \o <<sep>> \o join(Tail(words), sep)

RECURSIVE CountAlphabetic(_)
CountAlphabetic(line) ==
    IF line = <<>> THEN 0
    ELSE (IF is_alphabetic(Head(line)) THEN 1 ELSE 0) + CountAlphabetic(Tail(line))

long_enough_strict(line, minlength) == CountAlphabetic(line) > minlength
long_enough(line, minlength) == CountAlphabetic(line) >= minlength

PassesGate(text) ==
    is_none(args.minlength) \/ long_enough(text, unwrap(args.minlength))

(* ------------------------- detector answers --------------------------- *)
\* compute_language_confidence_values: one entry per language of the
\* detector, highest score first.
ConfidenceValues(langs) ==
    {d \in [1..Cardinality(langs) -> [lang : langs, score : 0..MaxScore]] :
        /\ \A a, b \in 1..Cardinality(langs) : a # b => d[a].lang # d[b].lang
        /\ \A a \in 1..(Cardinality(langs) - 1) : d[a].score >= d[a + 1].score}

\* detect_multiple_languages_of: ordered, non-overlapping segments inside
\* the text (gaps allowed), at most n of them, none starting before lo.
RECURSIVE SegmentSeqs(_, _, _, _)
SegmentSeqs(lo, len, langs, n) ==
    IF n = 0 THEN {<<>>}
    ELSE {<<>>} \cup
         UNION {{<<s>> \o rest : rest \in SegmentSeqs(s.end, len, langs, n - 1)} :
                s \in {r \in [start : lo..len, end : lo..len, lang : langs] :
                          r.start < r.end}}

DetectionResults(text, langs) == SegmentSeqs(0, Len(text), langs, MaxSegments)

(* ----------------------------- formatters ----------------------------- *)
Meets(result, confidence_threshold) ==
    is_some(confidence_threshold) /\ result.score >= unwrap(confidence_threshold)

RECURSIVE pcv_loop(_, _, _, _, _, _, _)
pcv_loop(res, k, delimiter, confidence_threshold, all, found, out) ==
    IF k > Len(res) THEN [found |-> found, out |-> out]
    ELSE LET hit == Meets(res[k], confidence_threshold)
             out2 == IF hit THEN Append(out, <<res[k].lang, delimiter, res[k].score>>)
                     ELSE out
         IN  IF ~all THEN [found |-> found \/ hit, out |-> out2]
             ELSE pcv_loop(res, k + 1, delimiter, confidence_threshold, all,
                           found \/ hit, out2)

print_confidence_values(res, delimiter, confidence_threshold, all) ==
    LET r == pcv_loop(res, 1, delimiter, confidence_threshold, all, FALSE, <<>>)
    IN  IF ~r.found THEN Append(r.out, <<"unknown", delimiter>>) ELSE r.out

RECURSIVE plcv_loop(_, _, _, _, _, _, _)
plcv_loop(line, res, k, delimiter, confidence_threshold, all, out) ==
    IF k > Len(res) THEN out
    ELSE LET rec == IF Meets(res[k], confidence_threshold)
                    THEN <<res[k].lang, delimiter, res[k].score, delimiter, line>>
                    ELSE <<"unknown", delimiter, delimiter, line>>
         IN  IF ~all THEN Append(out, rec)
             ELSE plcv_loop(line, res, k + 1, delimiter, confidence_threshold, all,
                            Append(out, rec))

print_line_with_confidence_values(line, res, delimiter, confidence_threshold, all) ==
    plcv_loop(line, res, 1, delimiter, confidence_threshold, all, <<>>)

\* &text[start..end]
SliceFromStart(text, start, end) == SubSeq(text, 1, end)
Slice(text, start, end) == SubSeq(text, start + 1, end)

print_with_offset(res, text, delimiter) ==
    [k \in 1..Len(res) |->
        <<res[k].start, delimiter, res[k].end, delimiter, res[k].lang, delimiter,
          Slice(text, res[k].start, res[k].end)>>]

(* ------------------------------- state -------------------------------- *)
NoDetector == [built |-> FALSE, languages |-> {}]

Init ==
    /\ args \in Args
    /\ pc = "start"
    /\ mode = "none"
    /\ detector = NoDetector
    /\ stdinRead = FALSE
    /\ stdin = <<>>
    /\ lines = <<>>
    /\ results = <<>>
    /\ stdout = <<>>
    /\ stderr = <<>>
    /\ calls = <<>>
    /\ exitCode = None

(* ------------------------------ stdin --------------------------------- *)
\* One element of stdin.lock().lines(): Ok(line) or Err (bytes that do not
\* decode).
Ok(line) == [ok |-> TRUE, line |-> line]
Err == [ok |-> FALSE, line |-> <<>>]
LineItems == {Ok(w) : w \in Words} \cup {Err}

\* The bytes of standard input as read_to_end sees them: every line followed
\* by its terminator.
RECURSIVE Buffer(_)
Buffer(items) ==
    IF items = <<>> THEN <<>>
    ELSE Head(items).line \o <<Newline>> \o Buffer(Tail(items))

ValidUtf8(items) == \A k \in 1..Len(items) : items[k].ok

(* ------------------------------ actions ------------------------------- *)
Exit(code) ==
    /\ pc' = "exit"
    /\ exitCode' = Some(code)

\* expect(..) on an Err / None: the panic message goes to stderr, exit 101.
Panic(msg) ==
    /\ stderr' = Append(stderr, msg)
    /\ Exit(101)

\* main.rs 83-90
ListLanguages ==
    /\ pc = "start"
    /\ args.list
    /\ stdout' = stdout \o [k \in 1..Len(AllLanguages) |->
                       <<AllLanguages[k], " - ", LanguageName(AllLanguages[k])>>]
    /\ Exit(0)
    /\ UNCHANGED <<args, mode, detector, stdinRead, stdin, lines, results,
                   stderr, calls>>

from_str_ok_any(code) == TRUE
from_str_ok(code) == code \in SupportedCodes

ParseLanguageCodesBeforeList ==
    /\ pc = "start"
    /\ IF \E k \in 1..Len(args.languages) : ~from_str_ok(args.languages[k])
       THEN Panic("Supported iso639-1 language code expected")
       ELSE /\ ~args.list
            /\ pc' = "build"
            /\ UNCHANGED <<stderr, exitCode>>
    /\ UNCHANGED <<args, mode, detector, stdinRead, stdin, lines, results,
                   stdout, calls>>

\* main.rs 93-100
ParseLanguageCodes ==
    /\ pc = "start"
    /\ ~args.list
    /\ IF \E k \in 1..Len(args.languages) : ~from_str_ok(args.languages[k])
       THEN Panic("Supported iso639-1 language code expected")
       ELSE /\ pc' = "build"
            /\ UNCHANGED <<stderr, exitCode>>
    /\ UNCHANGED <<args, mode, detector, stdinRead, stdin, lines, results,
                   stdout, calls>>

\* main.rs 101-115
BuildDetector ==
    /\ pc = "build"
    /\ detector' = [built |-> TRUE,
                    languages |-> IF args.languages = <<>> THEN SupportedCodes
                                  ELSE {args.languages[k] : k \in 1..Len(args.languages)}]
    /\ pc' = "dispatch"
    /\ UNCHANGED <<args, mode, stdinRead, stdin, lines, results, stdout,
                   stderr, calls, exitCode>>

SelectModeFlagsFirst(a) ==
    IF a.per_line /\ a.parallel THEN "PerLineParallel"
    ELSE IF a.per_line THEN "PerLineSequential"
    ELSE IF a.text # <<>> THEN "DirectText"
    ELSE "WholeStdin"

\* The if / else-if chain of main.rs 117, 131, 161, 179.
SelectMode(a) ==
    IF a.text # <<>> THEN "DirectText"
    ELSE IF a.per_line /\ a.parallel THEN "PerLineParallel"
    ELSE IF a.per_line THEN "PerLineSequential"
    ELSE "WholeStdin"

Dispatch ==
    /\ pc = "dispatch"
    /\ mode' = SelectMode(args)
    /\ pc' = SelectMode(args)
    /\ UNCHANGED <<args, detector, stdinRead, stdin, lines, results, stdout,
                   stderr, calls, exitCode>>

Call(fn, input, output) == [fn |-> fn, input |-> input, output |-> output]

\* main.rs 121-127 and 186-192
ClassifyText(text) ==
    IF args.multi
    THEN \E r \in DetectionResults(text, detector.languages) :
            /\ calls' = Append(calls, Call("detect_multiple_languages_of", text, r))
            /\ stdout' = stdout \o print_with_offset(r, text, args.delimiter)
    ELSE \E r \in ConfidenceValues(detector.languages) :
            /\ calls' = Append(calls, Call("compute_language_confidence_values", text, r))
            /\ stdout' = stdout \o print_confidence_values(r, args.delimiter,
                                                          args.confidence, args.all)

DirectTextUnit == join(args.text, Space)

\* main.rs 117-130
DirectText ==
    /\ pc = "DirectText"
    /\ IF PassesGate(DirectTextUnit)
       THEN ClassifyText(DirectTextUnit)
       ELSE /\ stdout' = Append(stdout, <<"unknown", args.delimiter>>)
            /\ UNCHANGED calls
    /\ Exit(0)
    /\ UNCHANGED <<args, mode, detector, stdinRead, stdin, lines, results,
                   stderr>>

\* The filter_map closure of main.rs 136-146.
KeepsLine(item) ==
    IF item.ok
    THEN ~(is_some(args.minlength) /\ ~long_enough(item.line, unwrap(args.minlength)))
    ELSE FALSE

\* main.rs 132-147, one element of the line iterator
ParallelReadLine ==
    /\ pc = "PerLineParallel"
    /\ Len(stdin) < MaxLines
    /\ \E item \in LineItems :
        /\ stdin' = Append(stdin, item)
        /\ lines' = IF KeepsLine(item) THEN Append(lines, item.line) ELSE lines
    /\ stdinRead' = TRUE
    /\ UNCHANGED <<args, pc, mode, detector, results, stdout, stderr, calls,
                   exitCode>>

MinLengthNote ==
    "Note: Lines that do not match the minimum length will not be returned (disable parallel mode if you want to return them as 'unknown')"

ZipCrossed(ls, res, k) == [line |-> ls[k], results |-> res[Len(res) + 1 - k]]
\* lines.iter().zip(results): the k-th pair is the k-th line with the k-th
\* result.
Zip(ls, res, k) == [line |-> ls[k], results |-> res[k]]

Min(a, b) == IF a <= b THEN a ELSE b

\* The for loop of main.rs 152-160 over the first n pairs of the zip.
RECURSIVE print_zip(_, _, _)
print_zip(ls, res, n) ==
    IF n = 0 THEN <<>>
    ELSE print_zip(ls, res, n - 1) \o
         print_line_with_confidence_values(Zip(ls, res, n).line,
                                           Zip(ls, res, n).results,
                                           args.delimiter, args.confidence, args.all)

\* main.rs 147-160: the iterator is exhausted, the batch is classified, the
\* note is written and every pair is printed; main returns.
ParallelBatch ==
    /\ pc = "PerLineParallel"
    /\ stdinRead' = TRUE
    /\ \E r \in [1..Len(lines) -> ConfidenceValues(detector.languages)] :
        /\ results' = r
        /\ calls' = Append(calls,
                        Call("compute_language_confidence_values_in_parallel", lines, r))
        /\ stdout' = stdout \o print_zip(lines, r, Min(Len(lines), Len(r)))
    /\ stderr' = IF is_some(args.minlength) THEN Append(stderr, MinLengthNote)
                 ELSE stderr
    /\ Exit(0)
    /\ UNCHANGED <<args, mode, detector, stdin, lines>>

\* main.rs 163-177, one iteration
SequentialLine ==
    /\ pc = "PerLineSequential"
    /\ Len(stdin) < MaxLines
    /\ \E item \in LineItems :
        /\ stdin' = Append(stdin, item)
        /\ IF item.ok
           THEN IF PassesGate(item.line)
                THEN \E r \in ConfidenceValues(detector.languages) :
                        /\ calls' = Append(calls,
                               Call("compute_language_confidence_values", item.line, r))
                        /\ stdout' = stdout \o print_line_with_confidence_values(
                                                   item.line, r, args.delimiter,
                                                   args.confidence, args.all)
                ELSE /\ stdout' = Append(stdout,
                            <<"unknown", args.delimiter, args.delimiter, item.line>>)
                     /\ UNCHANGED calls
           ELSE UNCHANGED <<stdout, calls>>
    /\ stdinRead' = TRUE
    /\ UNCHANGED <<args, pc, mode, detector, lines, results, stderr, exitCode>>

\* main.rs 163, the iterator is exhausted; main returns
SequentialEndOfInput ==
    /\ pc = "PerLineSequential"
    /\ stdinRead' = TRUE
    /\ Exit(0)
    /\ UNCHANGED <<args, mode, detector, stdin, lines, results, stdout,
                   stderr, calls>>

\* main.rs 180-193
WholeStdin ==
    /\ pc = "WholeStdin"
    /\ \E items \in SeqsUpTo(LineItems, MaxLines) :
        /\ stdin' = items
        /\ IF ~ValidUtf8(items)
           THEN /\ Panic("Input should be valid utf-8")
                /\ UNCHANGED <<stdout, calls>>
           ELSE /\ IF PassesGate(Buffer(items))
                   THEN ClassifyText(Buffer(items))
                   ELSE UNCHANGED <<stdout, calls>>
                /\ Exit(0)
                /\ UNCHANGED stderr
    /\ stdinRead' = TRUE
    /\ UNCHANGED <<args, mode, detector, lines, results>>

Next ==
    \/ ListLanguages
    \/ ParseLanguageCodes
    \/ BuildDetector
    \/ Dispatch
    \/ DirectText
    \/ ParallelReadLine
    \/ ParallelBatch
    \/ SequentialLine
    \/ SequentialEndOfInput
    \/ WholeStdin

Spec == Init /\ [][Next]_vars

(* ====================================================================== *)
(* Properties                                                             *)
(* ====================================================================== *)
Finished == pc = "exit"
Succeeded == pc = "exit" /\ exitCode = Some(0)

\* The text of the decoded lines read so far, in input order.
RECURSIVE DecodedLines(_)
DecodedLines(items) ==
    IF items = <<>> THEN <<>>
    ELSE (IF Head(items).ok THEN <<Head(items).line>> ELSE <<>>) \o
         DecodedLines(Tail(items))

\* The number of alphabetic characters of a text, counted by position.
Alphabetic(text) == Cardinality({k \in 1..Len(text) : text[k] \in Letters})

\* The gate as the documentation states it.
MeetsMinimum(text) ==
    args.minlength = None \/ Alphabetic(text) >= args.minlength[1]

\* The TextUnits the run has produced so far.
TextUnits ==
    IF mode = "DirectText" THEN <<DirectTextUnit>>
    ELSE IF mode = "WholeStdin"
         THEN (IF stdinRead /\ ValidUtf8(stdin) THEN <<Buffer(stdin)>> ELSE <<>>)
    ELSE IF mode \in {"PerLineSequential", "PerLineParallel"} THEN DecodedLines(stdin)
    ELSE <<>>

\* Every text handed to the detector so far, in call order.
RECURSIVE Submitted(_)
Submitted(cs) ==
    IF cs = <<>> THEN <<>>
    ELSE (IF Head(cs).fn = "compute_language_confidence_values_in_parallel"
          THEN Head(cs).input ELSE <<Head(cs).input>>) \o Submitted(Tail(cs))

TopMeets(d) == args.confidence = None \/ d[1].score >= args.confidence[1]
Qualifies(e) == args.confidence = None \/ e.score >= args.confidence[1]

\* ---------------------------------------------------------------- C1 ---
\* The one record a document gets with emit-all = false: the top entry when
\* no threshold is set or the top score reaches it, the sentinel otherwise.
C1_DocumentRecord(d) ==
    IF TopMeets(d) THEN <<d[1].lang, args.delimiter, d[1].score>>
    ELSE <<"unknown", args.delimiter>>

C1_LineRecord(line, d) ==
    IF TopMeets(d) THEN <<d[1].lang, args.delimiter, d[1].score, args.delimiter, line>>
    ELSE <<"unknown", args.delimiter, args.delimiter, line>>

\* C1: in single-language mode with emit-all = false, formatting one
\* TextUnit emits exactly one record: the top-ranked entry when the
\* threshold is unset or the top score >= threshold, the "unknown" sentinel
\* otherwise (whole document and per line alike).
C1_TopEntryOrUnknown ==
    /\ (Succeeded /\ mode \in {"DirectText", "WholeStdin"} /\ ~args.multi /\ ~args.all
            /\ Len(calls) = 1)
        => stdout = <<C1_DocumentRecord(calls[1].output)>>
    /\ (mode = "PerLineSequential" /\ ~args.all /\ Len(stdin) = 1 /\ Len(calls) = 1)
        => stdout = <<C1_LineRecord(stdin[1].line, calls[1].output)>>
    /\ (Succeeded /\ mode = "PerLineParallel" /\ ~args.all /\ Len(lines) = 1)
        => stdout = <<C1_LineRecord(lines[1], results[1])>>

\* ---------------------------------------------------------------- C2 ---
C2_Qualifying(d) == SelectSeq(d, Qualifies)

C2_DocumentRecords(d) ==
    IF C2_Qualifying(d) = <<>> THEN <<<<"unknown", args.delimiter>>>>
    ELSE [k \in 1..Len(C2_Qualifying(d)) |->
            <<C2_Qualifying(d)[k].lang, args.delimiter, C2_Qualifying(d)[k].score>>]

C2_LineRecords(line, d) ==
    IF C2_Qualifying(d) = <<>>
    THEN <<<<"unknown", args.delimiter, args.delimiter, line>>>>
    ELSE [k \in 1..Len(C2_Qualifying(d)) |->
            <<C2_Qualifying(d)[k].lang, args.delimiter, C2_Qualifying(d)[k].score,
              args.delimiter, line>>]

\* C2: in single-language mode with emit-all = true the records of one
\* TextUnit are exactly the entries with score >= threshold (all entries
\* when the threshold is unset), in the distribution's order; when none
\* qualifies exactly one "unknown" sentinel is emitted, and language
\* records and a sentinel are never mixed.
C2_AllQualifyingOrUnknown ==
    /\ (Succeeded /\ mode \in {"DirectText", "WholeStdin"} /\ ~args.multi /\ args.all
            /\ Len(calls) = 1)
        => stdout = C2_DocumentRecords(calls[1].output)
    /\ (mode = "PerLineSequential" /\ args.all /\ Len(stdin) = 1 /\ Len(calls) = 1)
        => stdout = C2_LineRecords(stdin[1].line, calls[1].output)
    /\ (Succeeded /\ mode = "PerLineParallel" /\ args.all /\ Len(lines) = 1)
        => stdout = C2_LineRecords(lines[1], results[1])

\* ---------------------------------------------------------------- C3 ---
\* C3: in every sequential mode (DirectText, WholeStdin, PerLineSequential)
\* a TextUnit rejected by the minimum-length gate produces exactly one
\* "unknown" sentinel record, never zero records.
C3_RejectedUnitYieldsUnknown ==
    /\ (Succeeded /\ mode \in {"DirectText", "WholeStdin"} /\ TextUnits # <<>>
            /\ ~MeetsMinimum(TextUnits[1]))
        => (Len(stdout) = 1 /\ stdout[1][1] = "unknown")
    /\ (mode = "PerLineSequential" /\ Len(stdin) = 1 /\ stdin[1].ok
            /\ ~MeetsMinimum(stdin[1].line))
        => (Len(stdout) = 1 /\ stdout[1][1] = "unknown")

\* ---------------------------------------------------------------- C4 ---
\* C4: with a minimum length M set, a TextUnit with fewer than M alphabetic
\* characters is never passed to a detector call and one with M or more
\* always is; with M unset every TextUnit is passed.  The texts submitted
\* to the detector are exactly the TextUnits that meet the minimum, in
\* order, once the unit has been handled.
C4_GateDecidesDetectorInput ==
    /\ (Finished \/ mode = "PerLineSequential")
        => Submitted(calls) = SelectSeq(TextUnits, MeetsMinimum)
    /\ ~(Finished \/ mode = "PerLineSequential") => calls = <<>>

\* A sequential run that rejected a line without letters and submitted a
\* line with exactly M letters.
C4_Witness ==
    /\ mode = "PerLineSequential"
    /\ args.minlength = Some(1)
    /\ Len(stdin) = 2
    /\ stdin[1] = Ok(<<"1">>)
    /\ stdin[2] = Ok(<<"a">>)
    /\ Submitted(calls) = <<<<"a">>>>

\* ---------------------------------------------------------------- C5 ---
\* C5: multi-segment mode together with per-line mode (no positional text)
\* is a configuration error: the run ends in an error outcome before any
\* standard input is read and before any record is written, and never
\* classifies a line.
C5_MultiWithPerLineIsRejected ==
    (args.multi /\ args.per_line /\ args.text = <<>> /\ ~args.list
        /\ \A k \in 1..Len(args.languages) : args.languages[k] \in SupportedCodes)
    => /\ ~stdinRead
       /\ stdout = <<>>
       /\ calls = <<>>
       /\ Finished => exitCode # Some(0)

\* ---------------------------------------------------------------- C6 ---
C6_ExpectedMode ==
    IF args.text # <<>> THEN "DirectText"
    ELSE IF args.per_line /\ args.parallel THEN "PerLineParallel"
    ELSE IF args.per_line /\ ~args.parallel THEN "PerLineSequential"
    ELSE "WholeStdin"

\* The positional arguments with exactly one space between neighbours.
RECURSIVE C6_SpaceJoined(_)
C6_SpaceJoined(words) ==
    IF Len(words) = 0 THEN <<>>
    ELSE IF Len(words) = 1 THEN words[1]
    ELSE C6_SpaceJoined(SubSeq(words, 1, Len(words) - 1)) \o <<" ">> \o words[Len(words)]

\* C6: exactly one mode runs, chosen from (positional text, per-line,
\* parallel): DirectText whenever text is present (flags ignored, stdin
\* never read, the arguments joined by single spaces into one TextUnit);
\* otherwise PerLineParallel iff per-line and parallel, PerLineSequential
\* iff per-line without parallel, WholeStdin otherwise, so that parallel
\* without per-line is ignored without error.
C6_ModeSelection ==
    /\ mode # "none" => mode = C6_ExpectedMode
    /\ pc \notin {"start", "build", "dispatch", "exit"} => pc = mode
    /\ stdinRead => mode \in {"PerLineParallel", "PerLineSequential", "WholeStdin"}
    /\ mode = "DirectText"
        => /\ ~stdinRead
           /\ stdin = <<>>
           /\ \A k \in 1..Len(calls) : calls[k].input = C6_SpaceJoined(args.text)
           /\ Finished => Len(stdout) >= IF args.multi THEN 0 ELSE 1
    /\ \A k \in 1..Len(calls) :
        calls[k].fn = "compute_language_confidence_values_in_parallel"
            <=> mode = "PerLineParallel"
    /\ (mode = "PerLineSequential" /\ Finished) => Len(calls) <= Len(stdin)
    /\ (mode = "WholeStdin" /\ Finished)
        => /\ Len(calls) <= 1
           /\ exitCode = Some(0) \/ ~ValidUtf8(stdin)

\* Direct text of two arguments given together with -n -p: classified as
\* one unit, nothing read from stdin.
C6_Witness ==
    /\ Succeeded
    /\ mode = "DirectText"
    /\ args.per_line /\ args.parallel
    /\ Len(args.text) = 2
    /\ Len(calls) = 1
    /\ Len(calls[1].input) = 3

\* ---------------------------------------------------------------- C7 ---
C7_Passing == SelectSeq(DecodedLines(stdin), MeetsMinimum)

C8_ListBypassesEverything ==
    args.list
    => /\ ~detector.built
       /\ ~stdinRead
       /\ calls = <<>>
       /\ stderr = <<>>
       /\ pc \in {"start", "exit"}
       /\ pc = "start" => stdout = <<>>
       /\ Finished
            => /\ exitCode = Some(0)
               /\ Len(stdout) = Cardinality(SupportedCodes)
               /\ \A k \in 1..Len(stdout) :
                    /\ Len(stdout[k]) = 3
                    /\ stdout[k][1] \in SupportedCodes
                    /\ stdout[k][2] = " - "

\* --list together with an unsupported code, text and per-line flags.
C8_Witness ==
    /\ Finished
    /\ args.list
    /\ args.languages = <<"de", "xx">>
    /\ args.per_line
    /\ args.text # <<>>
    /\ stdout # <<>>

\* ---------------------------------------------------------------- C9 ---
C9_HasUnsupportedCode ==
    \E k \in 1..Len(args.languages) : args.languages[k] \notin {"en", "de"}

\* C9: without the list flag, an unsupported code in the language
\* restriction ends the run in a fatal error (non-zero exit) before the
\* detector is built, before standard input is read and before any record
\* is written, in every input mode.
C9_UnsupportedCodeFailsFast ==
    (~args.list /\ C9_HasUnsupportedCode)
    => /\ ~detector.built
       /\ ~stdinRead
       /\ stdout = <<>>
       /\ calls = <<>>
       /\ mode = "none"
       /\ pc \in {"start", "exit"}
       /\ Finished => (exitCode # None /\ exitCode # Some(0))

\* A per-line run aborted by the bad code.
C9_Witness ==
    /\ Finished
    /\ ~args.list
    /\ args.languages = <<"de", "xx">>
    /\ args.per_line
    /\ args.text = <<>>
    /\ exitCode = Some(101)
    /\ stderr # <<>>

\* --------------------------------------------------------------- C10 ---
\* text[start..end], character by character.
C10_Substring(text, start, end) == [j \in 1..(end - start) |-> text[start + j]]

\* C10: in multi-segment mode (DirectText or WholeStdin, unit passing the
\* gate) the output is exactly one record per segment the detector
\* returned, in its order, made of start offset, end offset, language code
\* and text[start..end]; emit-all and the threshold have no effect.
C10_OneRecordPerSegment ==
    (Succeeded /\ args.multi /\ mode \in {"DirectText", "WholeStdin"}
        /\ MeetsMinimum(TextUnits[1]))
    => /\ Len(calls) = 1
       /\ calls[1].fn = "detect_multiple_languages_of"
       /\ calls[1].input = TextUnits[1]
       /\ Len(stdout) = Len(calls[1].output)
       /\ \A k \in 1..Len(stdout) :
            LET seg == calls[1].output[k]
            IN  stdout[k] = <<seg.start, args.delimiter, seg.end, args.delimiter,
                              seg.lang, args.delimiter,
                              C10_Substring(TextUnits[1], seg.start, seg.end)>>

\* Two segments with a gap between them, with -a and -c given.
C10_Witness ==
    /\ Succeeded
    /\ args.multi
    /\ args.all
    /\ args.confidence # None
    /\ mode = "DirectText"
    /\ Len(stdout) = 2
    /\ calls[1].output[1].end < calls[1].output[2].start
    /\ calls[1].output[1].lang # calls[1].output[2].lang
====
